---- MODULE Spec2Model ----
(***************************************************************************)
(* Model of the Eelytics API (wsgi.py) and of its deployment under         *)
(* gunicorn (setup-backend.py): the MQTT-to-database bridge and the three  *)
(* HTTP routes.                                                            *)
(*                                                                         *)
(* A topic is a sequence of tokens; the token "/" is the separator and     *)
(* every other token is one whole topic level.  A payload is described by  *)
(* what decode(), json.loads() and data['level'] make of it.               *)
(***************************************************************************)
EXTENDS Integers, Sequences, FiniteSets, TLC

VARIABLES store, now, dbUp, connected, subs, inbox, pubCount, published, last

vars == <<store, now, dbUp, connected, subs, inbox, pubCount, published, last>>

\* ---------------------------------------------------------------- bounds
MaxRows == 2
MaxTime == 1
MaxInbox == 1
MaxPublished == 1

\* ------------------------------------------------------ program constants
\* gunicorn --workers 3: every worker imports wsgi.py and runs Mqtt(app).
NumWorkers == 3
Workers == 1..NumWorkers

\* Python None / SQL NULL in a numeric column.
None == -999999

\* ------------------------------------------------------------ topic text
\* str.split('/'): the levels between the separators, empty levels kept.
RECURSIVE SplitFrom(_, _, _)
SplitFrom(topic, i, cur) ==
    IF i > Len(topic) THEN <<cur>>
    ELSE IF topic[i] = "/" THEN <<cur>> \o SplitFrom(topic, i + 1, "")
    ELSE SplitFrom(topic, i + 1, topic[i])

Split(topic) == SplitFrom(topic, 1, "")

\* int(text): the texts Python's int() accepts, with their values.
\* "2147483648" is 2^31, one past the largest value of a 4-byte integer; its
\* value is not needed, only that it is out of the column's range.
IntText == {"1", "5", "2147483648"}
BeyondInt32 == {"2147483648"}
IntOf(text) ==
    CASE text = "1" -> 1
      [] text = "5" -> 5

\* f'{tank_id}': decimal text of an integer.
StrOf(n) ==
    CASE n = 1 -> "1"
      [] n = 5 -> "5"
      [] OTHER -> "?"

\* MQTT topic-filter match; "+" matches exactly one level, empty included.
FilterMatches(filter, topic) ==
    LET f == Split(filter)
        t == Split(topic)
    IN  /\ Len(f) = Len(t)
        /\ \A i \in 1..Len(f) : f[i] = "+" \/ f[i] = t[i]

LevelFilter == <<"sensor", "/", "tank", "/", "+", "/", "water_level">>
StatusFilter == <<"sensor", "/", "gate", "/", "+", "/", "status">>

\* ----------------------------------------------------------- JSON values
Num(n) == [t |-> "num", n |-> n, s |-> ""]
Str(s) == [t |-> "str", n |-> 0, s |-> s]
Bool == [t |-> "bool", n |-> 0, s |-> ""]
Null == [t |-> "null", n |-> 0, s |-> ""]
ObjV == [t |-> "object", n |-> 0, s |-> ""]
ListV == [t |-> "list", n |-> 0, s |-> ""]

\* Payload bytes: utf8 = decode() succeeds, json = json.loads() succeeds,
\* obj = the document is an object, has = it has the key 'level'.
Level(v) == [utf8 |-> TRUE, json |-> TRUE, obj |-> TRUE, has |-> TRUE, level |-> v]
NoLevel == [utf8 |-> TRUE, json |-> TRUE, obj |-> TRUE, has |-> FALSE, level |-> Null]
NotObject == [utf8 |-> TRUE, json |-> TRUE, obj |-> FALSE, has |-> FALSE, level |-> Null]
BadJson == [utf8 |-> TRUE, json |-> FALSE, obj |-> FALSE, has |-> FALSE, level |-> Null]
BadUtf8 == [utf8 |-> FALSE, json |-> FALSE, obj |-> FALSE, has |-> FALSE, level |-> Null]


\* --------------------------------------------------------------- inputs
LevelTopic(id) == <<"sensor", "/", "tank", "/", id, "/", "water_level">>
GoodTopic == LevelTopic("1")
EmptyIdTopic == <<"sensor", "/", "tank", "/", "/", "water_level">>

Topics ==
    { GoodTopic, LevelTopic("x"), LevelTopic("2147483648"),
      EmptyIdTopic,
      <<"sensor", "/", "gate", "/", "1", "/", "status">>,
      <<"sensor", "/", "tank", "/", "1", "/", "status">>,
      <<"command", "/", "tank", "/", "1", "/", "water_level">>,
      <<"sensor", "/", "tank", "/", "1", "/", "water_level", "/", "raw">>,
      <<"sensor", "/", "tank">> }

Payloads ==
    { Level(Num(12)), Level(Str("7")), Level(Str("abc")), Level(Bool), Level(Null),
      Level(ObjV), Level(ListV), NoLevel, NotObject, BadJson, BadUtf8 }

\* The messages tried: every payload on the level topic, every topic with a
\* well-formed level, and an undecodable payload on the status topic.
Messages ==
    { [topic |-> GoodTopic, payload |-> p] : p \in Payloads }
    \cup { [topic |-> t, payload |-> Level(Num(12))] : t \in Topics }
    \cup { [topic |-> <<"sensor", "/", "gate", "/", "1", "/", "status">>, payload |-> BadUtf8] }

\* str(e) of the exceptions db.session.execute raises when the store is down.
StoreErrors == {"connection refused"}

\* ---------------------------------------------------- WaterLevel (the table)
\* tank_id = db.Column(db.Integer, nullable=False): int(text) is never None,
\* and the column holds it when it fits four bytes.
TankIdColumnOk(text) == text \in IntText /\ text \notin BeyondInt32

\* The text PostgreSQL reads as a double precision value.
FloatText == {"7"}
FloatOf(text) == CASE text = "7" -> 7 [] OTHER -> None

\* What the Float column stores for a Python value bound to it: numbers as they
\* are, None as NULL, text through the database's input conversion of an untyped
\* literal.  Booleans, dicts and lists have no conversion to double precision.
FloatColumnAccepts(v) ==
    \/ v.t = "num"
    \/ v.t = "null"
    \/ v.t = "str" /\ v.s \in FloatText

FloatColumnValue(v) ==
    CASE v.t = "num" -> v.n
      [] v.t = "str" -> FloatOf(v.s)
      [] OTHER -> None

\* The column declared without nullable=False.
LevelColumnNullable(level_cm) == TRUE

\* level_cm = db.Column(db.Float, nullable=False)
LevelColumnOk(level_cm) == level_cm # None

\* The two keyword arguments exchanged.
WaterLevelSwapped(id, tank_id, level, t) ==
    [id |-> id, tank_id |-> FloatColumnValue(level), level_cm |-> tank_id, timestamp |-> t]

\* WaterLevel(tank_id=int(tank_id), level_cm=data['level']) as the row the
\* INSERT writes: id from the primary-key sequence, timestamp = now().
WaterLevel(id, tank_id, level, t) ==
    [id |-> id, tank_id |-> tank_id, level_cm |-> FloatColumnValue(level), timestamp |-> t]

\* db.session.add(level); db.session.commit(): the row is written when the store
\* is reachable and every column accepts its value; otherwise commit raises.
CommitOk(up, tank_id, level) ==
    /\ up
    /\ TankIdColumnOk(tank_id)
    /\ FloatColumnAccepts(level)
    /\ LevelColumnOk(FloatColumnValue(level))

\* ------------------------------------------------- handle_mqtt_message
\* if topic_parts[1] == 'tank' and topic_parts[3] == 'water_level'
\* (Python indexes from 0; IndexError is reported by TopicIndexError).
TopicIndexError(topic_parts) ==
    \/ Len(topic_parts) < 2
    \/ topic_parts[2] = "tank" /\ Len(topic_parts) < 4

IsWaterLevelTopic(topic_parts) ==
    /\ topic_parts[2] = "tank"
    /\ topic_parts[4] = "water_level"

\* data['level'] raises KeyError (no such key) or TypeError (not a dict).
LevelLookupFails(payload) == ~payload.obj \/ ~payload.has

Outcome(st, raised, escaped) == [store |-> st, raised |-> raised, escaped |-> escaped]

\* The except block: rollback, print the error, print message.payload.decode();
\* the last decode() raises again when the payload is not valid UTF-8, and
\* that exception leaves the handler.
OnException(st, payload) == Outcome(st, TRUE, ~payload.utf8)

\* The body of the handler on one message, from the store `st`.
HandleMessage(topic, payload, st, up, t) ==
    LET topic_parts == Split(topic) IN
    IF ~payload.utf8 \/ ~payload.json THEN OnException(st, payload)
    ELSE IF TopicIndexError(topic_parts) THEN OnException(st, payload)
    ELSE IF ~IsWaterLevelTopic(topic_parts) THEN Outcome(st, FALSE, FALSE)
    ELSE IF topic_parts[3] \notin IntText THEN OnException(st, payload)
    ELSE IF LevelLookupFails(payload) THEN OnException(st, payload)
    ELSE IF ~CommitOk(up, topic_parts[3], payload.level) THEN OnException(st, payload)
    ELSE Outcome(Append(st, WaterLevel(Len(st) + 1, IntOf(topic_parts[3]), payload.level, t)),
                 FALSE, FALSE)

MessageRecord(msg, out, up) ==
    [op |-> "message", topic |-> msg.topic, payload |-> msg.payload,
     before |-> store, dbUp |-> up, raised |-> out.raised, escaped |-> out.escaped]

\* The handler called with a message.
handle_mqtt_message(msg) ==
    /\ Len(store) < MaxRows
    /\ LET out == HandleMessage(msg.topic, msg.payload, store, dbUp, now) IN
         /\ store' = out.store
         /\ last' = MessageRecord(msg, out, dbUp)
    /\ UNCHANGED <<now, dbUp, connected, subs, inbox, pubCount, published>>


\* ------------------------------------------------------ handle_connect
\* rc == 0: the extension marks the client connected and the handler
\* subscribes to both filters; any other rc only prints.
handle_connect(w, rc) ==
    /\ ~connected[w]
    /\ IF rc = 0
       THEN /\ connected' = [connected EXCEPT ![w] = TRUE]
            /\ subs' = [subs EXCEPT ![w] = {LevelFilter, StatusFilter}]
       ELSE UNCHANGED <<connected, subs>>
    /\ UNCHANGED <<store, now, dbUp, inbox, pubCount, published, last>>

\* The connection of worker w drops: mqtt.connected turns False and the
\* clean session's subscriptions and undelivered messages are gone.
Disconnect(w) ==
    /\ connected[w]
    /\ connected' = [connected EXCEPT ![w] = FALSE]
    /\ subs' = [subs EXCEPT ![w] = {}]
    /\ inbox' = [inbox EXCEPT ![w] = <<>>]
    /\ UNCHANGED <<store, now, dbUp, pubCount, published, last>>

\* ---------------------------------------------------------------- home
\* `if db_error:` - None and the empty string are both false.
Truthy(db_error) == db_error # {} /\ db_error # {""}

HealthBody(mqtt_connected, db_status, db_error) ==
    LET response == [status |-> "Eelytics API is Live",
                     mqtt_status |-> mqtt_connected,
                     db_status |-> db_status]
    IN  IF Truthy(db_error)
        THEN response @@ [db_error_message |-> CHOOSE e \in db_error : TRUE]
        ELSE response

\* The except branch left out: the status stays "ok".
DbStatusAlwaysOk(up) == "ok"

\* db.session.execute(db.select(1)) inside try/except.
DbStatus(up) == IF up THEN "ok" ELSE "error"

home(w) ==
    /\ \E e \in StoreErrors :
         LET db_error == IF dbUp THEN {} ELSE {e} IN
         last' = [op |-> "home", w |-> w, dbUp |-> dbUp, connected |-> connected[w],
                  status |-> 200,
                  body |-> HealthBody(connected[w], DbStatus(dbUp), db_error)]
    /\ UNCHANGED <<store, now, dbUp, connected, subs, inbox, pubCount, published>>

\* ---------------------------------------------------------- get_levels
\* datetime.isoformat(): the text of a timestamp, kept as date and second.
IsoFormat(t) == [date |-> "2025-01-01", time |-> <<0, 0, t>>]

\* order_by(WaterLevel.timestamp) without desc().
ComesBeforeAscending(a, b, tiesNewestFirst) ==
    \/ a.timestamp < b.timestamp
    \/ a.timestamp = b.timestamp /\ tiesNewestFirst

\* WaterLevel.timestamp.desc(): a comes before b.  Rows of equal timestamp
\* come in an order the database chooses (tiesNewestFirst).
ComesBefore(a, b, tiesNewestFirst) ==
    \/ a.timestamp > b.timestamp
    \/ a.timestamp = b.timestamp /\ tiesNewestFirst

RECURSIVE InsertRow(_, _, _)
InsertRow(r, sorted, tiesNewestFirst) ==
    IF sorted = <<>> THEN <<r>>
    ELSE IF ComesBefore(r, Head(sorted), tiesNewestFirst) THEN <<r>> \o sorted
    ELSE <<Head(sorted)>> \o InsertRow(r, Tail(sorted), tiesNewestFirst)

\* db.select(WaterLevel).order_by(WaterLevel.timestamp.desc())
RECURSIVE OrderByTimestampDesc(_, _)
OrderByTimestampDesc(rows, tiesNewestFirst) ==
    IF rows = <<>> THEN <<>>
    ELSE InsertRow(rows[Len(rows)],
                   OrderByTimestampDesc(SubSeq(rows, 1, Len(rows) - 1), tiesNewestFirst),
                   tiesNewestFirst)

Serialize(level) ==
    [id |-> level.id, tank_id |-> level.tank_id, level_cm |-> level.level_cm,
     timestamp |-> IsoFormat(level.timestamp)]

LevelsList(rows, tiesNewestFirst) ==
    LET levels == OrderByTimestampDesc(rows, tiesNewestFirst)
    IN  [i \in 1..Len(levels) |-> Serialize(levels[i])]

\* The query raises when the store is down and Flask answers 500.
get_levels(tiesNewestFirst) ==
    /\ last' = IF dbUp
               THEN [op |-> "levels", dbUp |-> TRUE, before |-> store, status |-> 200,
                     body |-> LevelsList(store, tiesNewestFirst)]
               ELSE [op |-> "levels", dbUp |-> FALSE, before |-> store, status |-> 500,
                     body |-> <<>>]
    /\ UNCHANGED <<store, now, dbUp, connected, subs, inbox, pubCount, published>>

\* ---------------------------------------------------- api_command_gate
\* from flask import Flask, jsonify: the name `request` is never bound, so
\* request.get_json() raises NameError inside the try block.
RequestIsDefined == FALSE

TankIds == {5}
NoAction == [has |-> FALSE, action |-> ""]
Action(a) == [has |-> TRUE, action |-> a]
Bodies == {Action("open"), Action("close"), Action("explode"), NoAction}

\* topic and json.dumps({'action': command}) handed to mqtt.publish
send_gate_command(tank_id, command) ==
    [topic |-> <<"command", "/", "gate", "/", StrOf(tank_id), "/", "action">>,
     payload |-> [action |-> command]]

CommandResult(tank_id, data) ==
    IF ~RequestIsDefined
    THEN [status |-> 500, body |-> [error |-> "name 'request' is not defined"], sent |-> <<>>]
    ELSE IF data.has /\ data.action \in {"open", "close"}
    THEN [status |-> 200,
          body |-> [status |-> "Command sent", tank_id |-> tank_id, action |-> data.action],
          sent |-> <<send_gate_command(tank_id, data.action)>>]
    ELSE [status |-> 400, body |-> [error |-> "Invalid command"], sent |-> <<>>]

api_command_gate(tank_id, data) ==
    /\ Len(published) < MaxPublished
    /\ LET r == CommandResult(tank_id, data) IN
         /\ published' = published \o r.sent
         /\ last' = [op |-> "command", tank_id |-> tank_id, data |-> data,
                     before |-> published, status |-> r.status, body |-> r.body]
    /\ UNCHANGED <<store, now, dbUp, connected, subs, inbox, pubCount>>

\* ------------------------------------------------------- environment
\* The database clock (now()) is wall-clock time: it may move either way.
ClockStep(t) ==
    /\ t # now
    /\ now' = t
    /\ UNCHANGED <<store, dbUp, connected, subs, inbox, pubCount, published, last>>

StoreFails ==
    /\ dbUp
    /\ dbUp' = FALSE
    /\ UNCHANGED <<store, now, connected, subs, inbox, pubCount, published, last>>

StoreRecovers ==
    /\ ~dbUp
    /\ dbUp' = TRUE
    /\ UNCHANGED <<store, now, connected, subs, inbox, pubCount, published, last>>

\* ------------------------------------------ the service under gunicorn
ServiceMessages ==
    { [topic |-> GoodTopic, payload |-> Level(Num(12))],
      [topic |-> <<"sensor", "/", "gate", "/", "1", "/", "status">>, payload |-> Level(Num(12))],
      [topic |-> <<"command", "/", "tank", "/", "1", "/", "water_level">>, payload |-> Level(Num(12))] }

Subscribed(w, topic) == \E f \in subs[w] : FilterMatches(f, topic)

\* A device publishes msg once; the broker hands a copy to every connection
\* with a matching subscription.
DevicePublish(msg) ==
    /\ pubCount < MaxRows
    /\ \A w \in Workers : Subscribed(w, msg.topic) => Len(inbox[w]) < MaxInbox
    /\ inbox' = [w \in Workers |->
                    IF Subscribed(w, msg.topic) THEN Append(inbox[w], msg) ELSE inbox[w]]
    /\ pubCount' = pubCount + 1
    /\ UNCHANGED <<store, now, dbUp, connected, subs, published, last>>

\* The MQTT thread of worker w takes the next message and calls the handler.
Deliver(w) ==
    /\ inbox[w] # <<>>
    /\ Len(store) < MaxRows * NumWorkers
    /\ LET msg == Head(inbox[w])
           out == HandleMessage(msg.topic, msg.payload, store, dbUp, now)
       IN  /\ store' = out.store
           /\ last' = MessageRecord(msg, out, dbUp)
    /\ inbox' = [inbox EXCEPT ![w] = Tail(inbox[w])]
    /\ UNCHANGED <<now, dbUp, connected, subs, pubCount, published>>

\* ------------------------------------------------------ specifications
Init ==
    /\ store = <<>>
    /\ now = 0
    /\ dbUp = TRUE
    /\ connected = [w \in Workers |-> FALSE]
    /\ subs = [w \in Workers |-> {}]
    /\ inbox = [w \in Workers |-> <<>>]
    /\ pubCount = 0
    /\ published = <<>>
    /\ last = [op |-> "none"]

\* The handlers and routes, each called with any input.
Next ==
    \/ \E w \in Workers, rc \in {0, 5} : handle_connect(w, rc)
    \/ \E w \in Workers : Disconnect(w)
    \/ \E msg \in Messages : handle_mqtt_message(msg)
    \/ \E w \in Workers : home(w)
    \/ \E ties \in BOOLEAN : get_levels(ties)
    \/ \E tank_id \in TankIds, data \in Bodies : api_command_gate(tank_id, data)
    \/ \E t \in 0..MaxTime : ClockStep(t)
    \/ StoreFails
    \/ StoreRecovers

Spec == Init /\ [][Next]_vars

\* The running service: messages reach the handler only through the broker.
NextService ==
    \/ \E w \in Workers, rc \in {0, 5} : handle_connect(w, rc)
    \/ \E w \in Workers : Disconnect(w)
    \/ \E msg \in ServiceMessages : DevicePublish(msg)
    \/ \E w \in Workers : Deliver(w)
    \/ \E t \in 0..MaxTime : ClockStep(t)

SpecService == Init /\ [][NextService]_vars


\* ================================================================ claims
IsLevelTopic(topic) == \E id \in IntText : topic = LevelTopic(id)
TopicId(topic) == topic[5]
NumericLevel(payload) ==
    payload.utf8 /\ payload.json /\ payload.obj /\ payload.has /\ payload.level.t = "num"
IsPrefix(a, b) == Len(a) <= Len(b) /\ SubSeq(b, 1, Len(a)) = a

\* C1: a message on sensor/tank/<id>/water_level with an integer <id> and a
\* numeric level, whose write the store accepts, adds exactly one Reading with
\* tank_id = <id> and level_cm = level, and changes no other row.
C1_LevelMessagePersistsOneReading ==
    (/\ last.op = "message"
     /\ IsLevelTopic(last.topic)
     /\ NumericLevel(last.payload)
     /\ ~last.raised)
    => /\ Len(store) = Len(last.before) + 1
       /\ IsPrefix(last.before, store)
       /\ store[Len(store)].tank_id = IntOf(TopicId(last.topic))
       /\ store[Len(store)].level_cm = last.payload.level.n

C1_Witness ==
    /\ last.op = "message"
    /\ last.topic = GoodTopic
    /\ NumericLevel(last.payload)
    /\ ~last.raised
    /\ Len(last.before) = 1
    /\ Len(store) = 2

\* C2: a message whose JSON object has a non-numeric level, or no level, adds
\* no Reading and no exception leaves the handler.
C2_NonNumericLevelPersistsNothing ==
    (/\ last.op = "message"
     /\ last.payload.utf8 /\ last.payload.json /\ last.payload.obj
     /\ (~last.payload.has \/ last.payload.level.t # "num"))
    => /\ store = last.before
       /\ ~last.escaped

\* C3: POST /api/command/gate/<id> with action open or close answers 200 with
\* {status, tank_id, action} and publishes exactly one message on
\* command/gate/<id>/action with payload {"action": <action>}.
C3_ValidCommandPublished ==
    (/\ last.op = "command"
     /\ last.data.has
     /\ last.data.action \in {"open", "close"})
    => /\ last.status = 200
       /\ DOMAIN last.body = {"status", "tank_id", "action"}
       /\ published = Append(last.before,
              [topic |-> <<"command", "/", "gate", "/", StrOf(last.tank_id), "/", "action">>,
               payload |-> [action |-> last.data.action]])

\* C4: POST /api/command/gate/<id> with any other action, or none, answers 400
\* with {error} and publishes nothing.
C4_InvalidCommandRejected ==
    (/\ last.op = "command"
     /\ ~(last.data.has /\ last.data.action \in {"open", "close"}))
    => /\ last.status = 400
       /\ DOMAIN last.body = {"error"}
       /\ published = last.before

\* C5: GET / always answers 200 with mqtt_status equal to the connected flag;
\* db_status is "ok" exactly when the trivial query succeeds, and when it fails
\* db_status is "error" and db_error_message carries the error text.
C5_HealthNeverFails ==
    last.op = "home"
    => /\ last.status = 200
       /\ last.body.mqtt_status = last.connected
       /\ (last.body.db_status = "ok") <=> last.dbUp
       /\ ~last.dbUp => /\ last.body.db_status = "error"
                        /\ "db_error_message" \in DOMAIN last.body
                        /\ last.body.db_error_message \in StoreErrors

C5_Witness ==
    /\ last.op = "home"
    /\ ~last.dbUp
    /\ last.connected
    /\ store # <<>>

\* C6: GET /api/levels on a reachable store returns every stored Reading
\* exactly once as {id, tank_id, level_cm, timestamp}, in non-increasing
\* timestamp order, and leaves the store as it was.
C6_LevelsNewestFirst ==
    (last.op = "levels" /\ last.dbUp)
    => /\ last.status = 200
       /\ store = last.before
       /\ Len(last.body) = Len(store)
       /\ \A r \in 1..Len(store) :
             Cardinality({i \in 1..Len(last.body) :
                 /\ last.body[i].id = store[r].id
                 /\ last.body[i].tank_id = store[r].tank_id
                 /\ last.body[i].level_cm = store[r].level_cm
                 /\ last.body[i].timestamp = IsoFormat(store[r].timestamp)}) = 1
       /\ \A i \in 1..Len(last.body) :
             DOMAIN last.body[i] = {"id", "tank_id", "level_cm", "timestamp"}
       /\ \A i \in 1..(Len(last.body) - 1) :
             last.body[i].timestamp.time[3] >= last.body[i + 1].timestamp.time[3]

C6_Witness ==
    /\ last.op = "levels"
    /\ last.dbUp
    /\ Len(store) = 2
    /\ store[1].timestamp < store[2].timestamp
    /\ last.body[1].id = 2

\* C7: every persisted Reading has a tank_id and a level_cm that are not null.
C7_ReadingsNotNull ==
    \A r \in 1..Len(store) : store[r].tank_id # None /\ store[r].level_cm # None

C7_Witness ==
    /\ last.op = "message"
    /\ IsLevelTopic(last.topic)
    /\ last.payload.has /\ last.payload.level.t = "null"
    /\ last.dbUp
    /\ store # <<>>

\* C8: when processing a message fails (payload not text, not JSON, or a store
\* failure), the Readings are what they were before the message and the
\* handler returns normally.
C8_FailureRolledBackAndContained ==
    (last.op = "message" /\ last.raised)
    => /\ store = last.before
       /\ ~last.escaped

\* C9: a Reading is persisted only for a topic of exactly the shape
\* sensor/tank/<id>/water_level.
C9_OnlyLevelTopicPersists ==
    (last.op = "message" /\ store # last.before)
    => \E id \in IntText \cup {"x", ""} : last.topic = LevelTopic(id)

\* C10: whatever the number of workers, a message published once to the broker
\* adds at most one Reading.
C10_OneReadingPerPublish == Len(store) <= pubCount

====
